---- MODULE Spec2Model ----
(***************************************************************************)
(* EventDetection (src/factfinder/src/event_detection.py) as a state       *)
(* machine.  Spec follows EventDetection.run stage by stage; SpecRebalance *)
(* applies EventDetection._rebalance_events to event and connection tables *)
(* drawn from bounded sets (run never calls it).                           *)
(*                                                                         *)
(* Numbers that pandas holds as floats are exact rationals <<n, d>> with   *)
(* d > 0; d = 0 is NaN.  Strings are sequences of one-character strings,   *)
(* except that a level name and the keyword part of a topic name are one   *)
(* symbol each.  Geometry, representative documents, category, importance  *)
(* and risk are left out: no checked property reads them.                  *)
(***************************************************************************)
EXTENDS Integers, Sequences, FiniteSets, TLC

\* ---------------------------------------------------------------- bounds
\* number of messages in the data set
NMsg == 5
\* the values of min_event_size passed to run
MaxMinEventSize == 6
\* number of events in the tables given to _rebalance_events
NEv == 3

\* ------------------------------------------------------ program constants
\* `if len(docs) >= 5`
MinDocs == 5
\* a missing value of a left join (NaN) in an id column
NaN == -1

levels == <<"building", "link", "road", "global">>

\* --------------------------------------------------------------- numbers
NaNNum == <<0, 0>>
One == <<1, 1>>
Zero == <<0, 1>>
IsNaN(x) == x[2] = 0
Num(k) == <<k, 1>>
NumEq(x, y) == (IsNaN(x) /\ IsNaN(y)) \/ (~IsNaN(x) /\ ~IsNaN(y) /\ x[1] * y[2] = y[1] * x[2])
NumLess(x, y) == x[1] * y[2] < y[1] * x[2]
NumLeq(x, y) == x[1] * y[2] <= y[1] * x[2]
NumAdd(x, y) == IF IsNaN(x) \/ IsNaN(y) THEN NaNNum ELSE <<x[1] * y[2] + y[1] * x[2], x[2] * y[2]>>
NumSub(x, y) == IF IsNaN(x) \/ IsNaN(y) THEN NaNNum ELSE <<x[1] * y[2] - y[1] * x[2], x[2] * y[2]>>
\* pandas float division: 0/0 is NaN (a non-zero numerator over 0 does not occur)
NumDiv(x, y) ==
    IF IsNaN(x) \/ IsNaN(y) \/ y[1] = 0 THEN NaNNum
    ELSE IF y[1] > 0 THEN <<x[1] * y[2], x[2] * y[1]>>
    ELSE <<0 - x[1] * y[2], 0 - x[2] * y[1]>>
\* astype(int): truncation toward zero
NumTrunc(x) == IF x[1] >= 0 THEN x[1] \div x[2] ELSE 0 - ((0 - x[1]) \div x[2])

\* Series.min() / Series.max(): NaN entries are skipped, NaN when none is left
SeqMin(s) ==
    LET ok == {i \in DOMAIN s : ~IsNaN(s[i])}
    IN  IF ok = {} THEN NaNNum
        ELSE s[CHOOSE i \in ok : \A j \in ok : NumLeq(s[i], s[j])]
SeqMax(s) ==
    LET ok == {i \in DOMAIN s : ~IsNaN(s[i])}
    IN  IF ok = {} THEN NaNNum
        ELSE s[CHOOSE i \in ok : \A j \in ok : NumLeq(s[j], s[i])]

RECURSIVE SeqSum(_)
SeqSum(s) == IF s = <<>> THEN Zero ELSE NumAdd(Head(s), SeqSum(Tail(s)))

RECURSIVE Flatten(_)
Flatten(ss) == IF ss = <<>> THEN <<>> ELSE Head(ss) \o Flatten(Tail(ss))

Reverse(s) == [i \in 1..Len(s) |-> s[Len(s) + 1 - i]]

\* Series.unique(): the distinct values in order of first appearance
RECURSIVE Unique(_)
Unique(s) ==
    IF s = <<>> THEN <<>>
    ELSE LET front == Unique(SubSeq(s, 1, Len(s) - 1))
             last  == s[Len(s)]
         IN  IF \E i \in DOMAIN front : front[i] = last THEN front ELSE Append(front, last)

IndexOf(s, x) == CHOOSE i \in DOMAIN s : s[i] = x

\* --------------------------------------------------------------- strings
Digit(d) == <<"0", "1", "2", "3", "4", "5", "6", "7", "8", "9">>[d + 1]
RECURSIVE StrNat(_)
StrNat(n) == IF n < 10 THEN <<Digit(n)>> ELSE StrNat(n \div 10) \o <<Digit(n % 10)>>
\* str(int)
Str(n) == IF n < 0 THEN <<"-">> \o StrNat(0 - n) ELSE StrNat(n)
\* str(object_id): global_id is the int 0, the other id columns are floats
StrObjectId(level, oid) == IF level = "global" THEN Str(oid) ELSE Str(oid) \o <<".", "0">>
\* ', '.join([str(id) for id in x])
RECURSIVE JoinIds(_)
JoinIds(ids) ==
    IF ids = <<>> THEN <<>>
    ELSE IF Len(ids) = 1 THEN Str(ids[1])
    ELSE Str(ids[1]) \o <<",", " ">> \o JoinIds(Tail(ids))
\* set(s) of a str: its characters
CharSet(s) == {s[i] : i \in DOMAIN s}
\* re.match(r'^-1.*', x)
MatchesNoisePattern(x) == Len(x) >= 2 /\ x[1] = "-" /\ x[2] = "1"

VARIABLES pc, stages, error, min_event_size, buildings, messages, population,
          pending, call, event_models, events, connections, events_rebalanced,
          rebalanced_population

vars == <<pc, stages, error, min_event_size, buildings, messages, population,
          pending, call, event_models, events, connections, events_rebalanced,
          rebalanced_population>>

NoCall == [kind |-> "none"]

\* EventDetection.__init__
Init ==
    /\ pc = "start"
    /\ stages = <<>>
    /\ error = "none"
    /\ min_event_size = 0
    /\ buildings = <<>>
    /\ messages = <<>>
    /\ population = <<>>
    /\ pending = <<>>
    /\ call = NoCall
    /\ event_models = <<>>
    /\ events = <<>>
    /\ connections = <<>>
    /\ events_rebalanced = <<>>
    /\ rebalanced_population = <<>>

\* ------------------------------------------------- loading, preprocessing
\* _get_roads: link 0 and link 1 belong to road 0, link 2 has no name (road NaN)
LinkRoad(l) == IF l = NaN THEN NaN ELSE IF l = 2 THEN NaN ELSE 0

\* _get_buildings: building_id is the index; sjoin_nearest gives each building
\* the link nearest to it (NaN when none is within 500 m) and that link's road
Building(id, pop, link) ==
    [building_id |-> id, population_balanced |-> pop, link_id |-> link, road_id |-> LinkRoad(link)]

BuildingRow(bs, id) == bs[CHOOSE i \in DOMAIN bs : bs[i].building_id = id]

\* _preprocess: the containment joins give building_id and the direct link
\* (with its road); a missing link_id / road_id is taken from the building
_preprocess(bs, raw) ==
    [i \in DOMAIN raw |->
        LET b == raw[i].building_id
            direct == raw[i].link_id
            link_from_building == IF b = NaN THEN NaN ELSE BuildingRow(bs, b).link_id
            road_from_building == IF b = NaN THEN NaN ELSE BuildingRow(bs, b).road_id
        IN  [message_id |-> raw[i].message_id,
             building_id |-> b,
             link_id |-> IF direct = NaN THEN link_from_building ELSE direct,
             road_id |-> IF LinkRoad(direct) = NaN THEN road_from_building ELSE LinkRoad(direct),
             global_id |-> 0,
             date_time |-> raw[i].date_time]]

\* where the messages lie
InBuilding0 == [building_id |-> 0, link_id |-> NaN]
OnLink1 == [building_id |-> NaN, link_id |-> 1]
Nowhere == [building_id |-> NaN, link_id |-> NaN]

\* the cities: the population and the link of building 0 and of building 1,
\* where the messages lie, and whether the last message lies outside every
\* building and link instead
City(pop0, link0, pop1, link1, place, split) ==
    [buildings |-> <<Building(0, pop0, link0), Building(1, pop1, link1)>>,
     place |-> place, split |-> split]

Cities ==
    {City(2, 0, 3, 0, InBuilding0, FALSE), City(2, 0, 3, 0, InBuilding0, TRUE),
     City(2, 2, 3, 0, InBuilding0, FALSE), City(2, NaN, 3, 0, InBuilding0, FALSE),
     City(2, 0, 3, 0, OnLink1, FALSE), City(2, 0, 3, 1, OnLink1, FALSE),
     City(0, 0, 0, 1, OnLink1, FALSE),
     City(2, 0, 3, 0, Nowhere, FALSE)}

\* message i has id 8 + i and is dated day i
RawMessages(place, split) ==
    [i \in 1..NMsg |->
        LET p == IF split /\ i = NMsg THEN Nowhere ELSE place
        IN  [message_id |-> 8 + i, building_id |-> p.building_id, link_id |-> p.link_id,
             date_time |-> i]]

\* run, up to `messages preprocessed`
run_load ==
    /\ pc = "start"
    /\ \E city \in Cities, m \in {2, MaxMinEventSize} :
          /\ buildings' = city.buildings
          /\ messages' = _preprocess(city.buildings, RawMessages(city.place, city.split))
          /\ min_event_size' = m
    /\ pc' = "get_events"
    /\ stages' = Append(stages, "load")
    /\ UNCHANGED <<error, population, pending, call, event_models, events, connections,
                   events_rebalanced, rebalanced_population>>

\* ------------------------------------------------------------ population
LevelId(r, level) ==
    CASE level = "building" -> r.building_id
      [] level = "link" -> r.link_id
      [] level = "road" -> r.road_id
      [] level = "global" -> r.global_id

RECURSIVE SumPop(_)
SumPop(bs) == IF bs = <<>> THEN 0 ELSE Head(bs).population_balanced + SumPop(Tail(bs))

\* groupby(col).sum(): one key per non-NaN value of the column
GroupSum(bs, level) ==
    LET keys == {LevelId(bs[i], level) : i \in DOMAIN bs} \ {NaN}
    IN  [k \in keys |-> SumPop(SelectSeq(bs, LAMBDA r : LevelId(r, level) = k))]

_collect_population(bs) ==
    [global |-> [k \in {0} |-> SumPop(bs)],
     road |-> GroupSum(bs, "road"),
     link |-> GroupSum(bs, "link"),
     building |-> [k \in {bs[i].building_id : i \in DOMAIN bs} |-> BuildingRow(bs, k).population_balanced]]

\* ------------------------------------------------------ event extraction
\* the clustering capability (BERTopic over UMAP and HDBSCAN) is external: a
\* labelling of n documents gives the first kn documents (at most one of them
\* when there is a cluster) the noise label -1,
\* the next k0 topic 0 and the rest topic 1; topic 0 is the largest and, by
\* HDBSCAN(min_cluster_size=min_event_size), a cluster has at least m members,
\* so that fewer than m documents are all noise
Block(n, kn, k0) ==
    [i \in 1..n |-> IF i <= kn THEN -1 ELSE IF i <= kn + k0 THEN 0 ELSE 1]

Labelings(n, m) ==
    {Block(n, kn, k0) : <<kn, k0>> \in
        {x \in (0..n) \X (0..n) :
            LET k1 == n - x[1] - x[2]
            IN  /\ k1 >= 0
                /\ x[1] <= 1 \/ (x[1] = n /\ n < m)
                /\ x[2] >= k1
                /\ x[2] = 0 \/ x[2] >= m
                /\ k1 = 0 \/ k1 >= m}}

TopicRange == <<-1, 0, 1>>
TopicsOf(labels) == {labels[i] : i \in DOMAIN labels}

\* topic_model.reduce_outliers: every noise document goes to cluster `target`
reduce_outliers(labels, target) ==
    [i \in DOMAIN labels |-> IF labels[i] = -1 THEN target ELSE labels[i]]

\* topic_model.get_topic_info: one row per topic of the labelling the model
\* holds, in ascending topic order; Name is the topic followed by its keywords
get_topic_info(labels) ==
    LET present == SelectSeq(TopicRange, LAMBDA t : t \in TopicsOf(labels))
    IN  [k \in DOMAIN present |->
            [Topic |-> present[k],
             Count |-> Cardinality({i \in DOMAIN labels : labels[i] = present[k]}),
             Name |-> Str(present[k]) \o <<"_", "keywords">>]]

\* the outcomes of the refinement pass on a labelling: reduce_outliers raises
\* ValueError, or it returns and update_topics raises ValueError before the
\* model holds the new labelling, or both return
RefinementOutcomes(labels) ==
    LET clusters == TopicsOf(labels) \ {-1}
    IN  {[outcome |-> "reduce_failed", topics |-> labels, model |-> labels]}
        \cup {[outcome |-> "update_failed", topics |-> reduce_outliers(labels, t), model |-> labels] :
                t \in clusters}
        \cup {[outcome |-> "refined", topics |-> reduce_outliers(labels, t),
               model |-> reduce_outliers(labels, t)] : t \in clusters}

LocalMessages(msgs, level, oid) ==
    IF oid = NaN THEN <<>> ELSE SelectSeq(msgs, LAMBDA r : LevelId(r, level) = oid)

\* the potential_population branch of _event_from_object
PotentialPopulation(bs, pops, level, oid) ==
    IF level = "global" \/ level = "road"
    THEN [raised |-> "none", level |-> level, potential_population |-> One]
    ELSE LET higher == levels[IndexOf(levels, level) + 1]
             rows == SelectSeq(bs, LAMBDA r : LevelId(r, level) = oid)
             parents == Unique([i \in DOMAIN rows |-> LevelId(rows[i], higher)])
         IN  IF parents = <<>>
             THEN \* IndexError
                  [raised |-> "none", level |-> "global", potential_population |-> One]
             ELSE IF oid \notin DOMAIN pops[level] \/ parents[1] \notin DOMAIN pops[higher]
             THEN [raised |-> "KeyError", level |-> level, potential_population |-> NaNNum]
             ELSE IF pops[higher][parents[1]] = 0
             THEN \* ZeroDivisionError
                  [raised |-> "none", level |-> level, potential_population |-> One]
             ELSE [raised |-> "none", level |-> level,
                   potential_population |-> <<pops[level][oid], pops[higher][parents[1]]>>]

\* (max(date_time) - min(date_time)).days over the messages whose id is in x
Duration(msgs, x) ==
    LET days == {msgs[i].date_time : i \in {j \in DOMAIN msgs : \E k \in DOMAIN x : x[k] = msgs[j].message_id}}
    IN  IF days = {} THEN NaNNum
        ELSE Num((CHOOSE d \in days : \A e \in days : e <= d) - (CHOOSE d \in days : \A e \in days : d <= e))

EventId(topic, level, oid) == Str(topic) \o <<"_", level, "_">> \o StrObjectId(level, oid)

\* the event_model frame _event_from_object returns
EventModel(msgs, local, level, oid, pp, r) ==
    LET info == get_topic_info(r.model)
    IN  [k \in DOMAIN info |->
            LET ids == [j \in DOMAIN SelectSeq([i \in DOMAIN local |-> i], LAMBDA i : r.topics[i] = info[k].Topic) |->
                            local[SelectSeq([i \in DOMAIN local |-> i], LAMBDA i : r.topics[i] = info[k].Topic)[j]].message_id]
            IN  [Topic |-> info[k].Topic,
                 Count |-> info[k].Count,
                 Name |-> info[k].Name,
                 level |-> pp.level,
                 object_id |-> StrObjectId(level, oid),
                 id |-> EventId(info[k].Topic, level, oid),
                 potential_population |-> pp.potential_population,
                 message_ids |-> ids,
                 duration |-> Duration(msgs, ids)]]

ObjectIds(msgs, level) == Unique([i \in DOMAIN msgs |-> LevelId(msgs[i], level)])

\* the levels walked from building to global, without reversed()
ExtractionOrder_levels_not_reversed == levels
\* `for level in reversed(self.levels)`
ExtractionOrder == Reverse(levels)

\* _get_events, up to the loop over the levels and their objects
get_events_begin ==
    /\ pc = "get_events"
    /\ population' = _collect_population(buildings)
    /\ pending' = Flatten([l \in DOMAIN levels |->
                     LET level == ExtractionOrder[l]
                         oids == ObjectIds(messages, level)
                     IN  [k \in DOMAIN oids |-> <<level, oids[k]>>]])
    /\ event_models' = <<>>
    /\ pc' = "event_from_object"
    /\ stages' = Append(stages, "get_events")
    /\ UNCHANGED <<error, min_event_size, buildings, messages, call, events, connections,
                   events_rebalanced, rebalanced_population>>

EventFrame == <<error, min_event_size, buildings, messages, population, events, connections,
                events_rebalanced, rebalanced_population, stages>>

\* _event_from_object with fewer than 5 documents: returns None
event_skipped ==
    /\ pc = "event_from_object"
    /\ pending # <<>>
    /\ Len(LocalMessages(messages, Head(pending)[1], Head(pending)[2])) < MinDocs
    /\ call' = [kind |-> "skipped", level |-> Head(pending)[1], object_id |-> Head(pending)[2]]
    /\ pending' = Tail(pending)
    /\ UNCHANGED <<pc, event_models>>
    /\ UNCHANGED EventFrame

\* _event_from_object when fit_transform raises TypeError: returns None
event_fit_failed ==
    /\ pc = "event_from_object"
    /\ pending # <<>>
    /\ Len(LocalMessages(messages, Head(pending)[1], Head(pending)[2])) >= MinDocs
    /\ call' = [kind |-> "fit_failed", level |-> Head(pending)[1], object_id |-> Head(pending)[2]]
    /\ pending' = Tail(pending)
    /\ UNCHANGED <<pc, event_models>>
    /\ UNCHANGED EventFrame

\* _event_from_object when the documents are clustered
event_from_object ==
    /\ pc = "event_from_object"
    /\ pending # <<>>
    /\ LET level == Head(pending)[1]
           oid == Head(pending)[2]
           local == LocalMessages(messages, level, oid)
       IN  /\ Len(local) >= MinDocs
           /\ \E labels \in Labelings(Len(local), min_event_size) :
              \E r \in RefinementOutcomes(labels) :
                LET pp == PotentialPopulation(buildings, population, level, oid)
                IN  /\ call' = [kind |-> "clustered", level |-> level, object_id |-> oid,
                                labels |-> labels, outcome |-> r.outcome]
                    /\ IF pp.raised = "none"
                       THEN /\ event_models' = Append(event_models, EventModel(messages, local, level, oid, pp, r))
                            /\ pending' = Tail(pending)
                            /\ UNCHANGED <<pc, error, stages>>
                       ELSE /\ pc' = "aborted"
                            /\ error' = pp.raised
                            /\ stages' = Append(stages, "raised")
                            /\ UNCHANGED <<event_models, pending>>
    /\ UNCHANGED <<min_event_size, buildings, messages, population, events, connections,
                   events_rebalanced, rebalanced_population>>

\* ---------------------------------------------------- the events table
\* (x - x.min()) / (x.max() - x.min()) over a column
MinMax(col) ==
    [i \in DOMAIN col |-> NumDiv(NumSub(col[i], SeqMin(col)), NumSub(SeqMax(col), SeqMin(col)))]

\* _get_events after the concat: the renames, message_ids joined into a
\* string, the normalisation over every event, the projection (intensity and
\* duration, which the projection drops after risk is computed, are kept here)
EventsTable(rows) ==
    LET intensity == MinMax([i \in DOMAIN rows |-> Num(rows[i].Count)])
        duration == MinMax([i \in DOMAIN rows |-> rows[i].duration])
    IN  [i \in DOMAIN rows |->
            [name |-> rows[i].Name,
             level |-> rows[i].level,
             id |-> rows[i].id,
             population |-> rows[i].potential_population,
             message_ids |-> JoinIds(rows[i].message_ids),
             intensity |-> intensity[i],
             duration |-> duration[i]]]

\* _get_events from the concat on, and run's assignment to self.events;
\* pd.concat of an empty list raises ValueError
get_events_end ==
    /\ pc = "event_from_object"
    /\ pending = <<>>
    /\ call' = NoCall
    /\ IF event_models = <<>>
       THEN /\ pc' = "aborted"
            /\ error' = "ValueError"
            /\ stages' = Append(stages, "raised")
            /\ UNCHANGED events
       ELSE /\ events' = EventsTable(Flatten(event_models))
            /\ pc' = "get_event_connections"
            /\ stages' = Append(stages, "events")
            /\ UNCHANGED error
    /\ UNCHANGED <<min_event_size, buildings, messages, population, pending, event_models,
                   connections, events_rebalanced, rebalanced_population>>

\* ----------------------------------------------------------- connections
\* itertools.combinations(range(1, n + 1), 2), in its order
Combinations2(n) == Flatten([i \in 1..n |-> [k \in 1..(n - i) |-> <<i, i + k>>]])

\* len(set(c[0]) & set(c[1])) over self.events.message_ids
Weight(x, y) == Cardinality(CharSet(x) \cap CharSet(y))

_get_event_connections(evs) ==
    LET pairs == Combinations2(Len(evs))
        all == [k \in DOMAIN pairs |->
                  [weight |-> Weight(evs[pairs[k][1]].message_ids, evs[pairs[k][2]].message_ids),
                   a |-> evs[pairs[k][1]].id,
                   b |-> evs[pairs[k][2]].id]]
    IN  SelectSeq(all, LAMBDA c : c.weight > 0)

run_get_event_connections ==
    /\ pc = "get_event_connections"
    /\ connections' = _get_event_connections(events)
    /\ pc' = "filter_outliers"
    /\ stages' = Append(stages, "connections")
    /\ UNCHANGED <<error, min_event_size, buildings, messages, population, pending, call,
                   event_models, events, events_rebalanced, rebalanced_population>>

\* -------------------------------------------------------- outlier filter
\* events[events.name.map(...)]: the events whose name does not match
FilterEvents(evs) == SelectSeq(evs, LAMBDA e : ~MatchesNoisePattern(e.name))

\* the connections filtered on endpoint a alone
FilterConnections_endpoint_a_only(conns) ==
    SelectSeq(conns, LAMBDA c : ~MatchesNoisePattern(c.a))

\* the connections whose a, then whose b, does not match
FilterConnections(conns) ==
    SelectSeq(SelectSeq(conns, LAMBDA c : ~MatchesNoisePattern(c.a)),
              LAMBDA c : ~MatchesNoisePattern(c.b))

\* run from _filter_outliers to its return (_prepare_messages only renames
\* and projects the message columns)
run_filter_outliers ==
    /\ pc = "filter_outliers"
    /\ events' = FilterEvents(events)
    /\ connections' = FilterConnections(connections)
    /\ pc' = "done"
    /\ stages' = Append(stages, "filter")
    /\ UNCHANGED <<error, min_event_size, buildings, messages, population, pending, call,
                   event_models, events_rebalanced, rebalanced_population>>

Next ==
    \/ run_load
    \/ get_events_begin
    \/ event_skipped
    \/ event_fit_failed
    \/ event_from_object
    \/ get_events_end
    \/ run_get_event_connections
    \/ run_filter_outliers

Spec == Init /\ [][Next]_vars

\* ----------------------------------------------------------- rebalancing
\* events[events.id.isin(ids) & events.level.isin(lvls)].potential_population.sum()
AccountedPops(evs, ids, lvls) ==
    LET rows == SelectSeq(evs, LAMBDA e : e.id \in ids /\ \E k \in DOMAIN lvls : lvls[k] = e.level)
    IN  SeqSum([i \in DOMAIN rows |-> rows[i].potential_population])

\* _rebalance summing over the connected events of every level
_rebalance_without_level_filter(conns, evs, lvls, event_population, event_id) ==
    LET connections_of_event == SelectSeq(conns, LAMBDA c : c.a = event_id)
        accounted_pops == AccountedPops(evs, {connections_of_event[i].b : i \in DOMAIN connections_of_event}, levels)
        reverse_of_event == SelectSeq(conns, LAMBDA c : c.b = event_id)
        reverse_pops == AccountedPops(evs, {reverse_of_event[i].a : i \in DOMAIN reverse_of_event}, levels)
    IN  IF Len(connections_of_event) > 0
        THEN IF NumLeq(accounted_pops, event_population)
             THEN NumSub(event_population, accounted_pops)
             ELSE NumSub(event_population, reverse_pops)
        ELSE event_population

\* _rebalance: the a-side connections first, the b-side ones when the
\* subtraction would be negative
_rebalance(conns, evs, lvls, event_population, event_id) ==
    LET connections_of_event == SelectSeq(conns, LAMBDA c : c.a = event_id)
        accounted_pops == AccountedPops(evs, {connections_of_event[i].b : i \in DOMAIN connections_of_event}, lvls)
        reverse_of_event == SelectSeq(conns, LAMBDA c : c.b = event_id)
        reverse_pops == AccountedPops(evs, {reverse_of_event[i].a : i \in DOMAIN reverse_of_event}, lvls)
    IN  IF Len(connections_of_event) > 0
        THEN IF NumLeq(accounted_pops, event_population)
             THEN NumSub(event_population, accounted_pops)
             ELSE NumSub(event_population, reverse_pops)
        ELSE event_population

\* the levels _rebalance_events walks: levels[1:]
RebalancedLevels == Tail(levels)

\* _rebalance_events up to the concat: the events of each walked level, in the
\* order of the levels, each with its rebalanced_population
RebalancedFrame(evs, conns) ==
    Flatten([l \in DOMAIN RebalancedLevels |->
        LET level == RebalancedLevels[l]
            levels_to_account == SubSeq(levels, 1, IndexOf(levels, level) - 1)
            events_for_level == SelectSeq(evs, LAMBDA e : e.level = level)
        IN  [i \in DOMAIN events_for_level |->
                [id |-> events_for_level[i].id,
                 level |-> level,
                 rebalanced_population |->
                     _rebalance(conns, evs, levels_to_account,
                                events_for_level[i].potential_population, events_for_level[i].id)]]])

\* _rebalance_events from the concat on: NaN becomes 0, the column is renamed
\* to population and truncated to int
_rebalance_events(evs, conns) ==
    LET frame == RebalancedFrame(evs, conns)
    IN  [i \in DOMAIN frame |->
            [id |-> frame[i].id,
             level |-> frame[i].level,
             population |-> IF IsNaN(frame[i].rebalanced_population) THEN 0
                            ELSE NumTrunc(frame[i].rebalanced_population)]]

\* the tables given to _rebalance_events: NEv events, event k being topic 0 of
\* object k of its level with potential population 0, 1/2 or 1, and
\* connections between consecutive events
InputEvents ==
    {[k \in 1..NEv |-> [id |-> EventId(0, lv[k], k), level |-> lv[k], potential_population |-> <<pp[k], 2>>]] :
        <<lv, pp>> \in [1..NEv -> {levels[i] : i \in DOMAIN levels}] \X [1..NEv -> 0..2]}

InputConnections(evs) ==
    {Flatten([k \in 1..(NEv - 1) |->
        IF dir[k] = "none" THEN <<>>
        ELSE IF dir[k] = "forward" THEN <<[weight |-> 1, a |-> evs[k].id, b |-> evs[k + 1].id]>>
        ELSE <<[weight |-> 1, a |-> evs[k + 1].id, b |-> evs[k].id]>>]) :
        dir \in [1..(NEv - 1) -> {"none", "forward", "backward"}]}

InitRebalance ==
    /\ pc = "rebalance_events"
    /\ stages = <<>>
    /\ error = "none"
    /\ min_event_size = 0
    /\ buildings = <<>>
    /\ messages = <<>>
    /\ population = <<>>
    /\ pending = <<>>
    /\ call = NoCall
    /\ event_models = <<>>
    /\ events \in InputEvents
    /\ connections \in InputConnections(events)
    /\ events_rebalanced = <<>>
    /\ rebalanced_population = <<>>

\* a call of _rebalance_events on self.events and self.connections
rebalance_events ==
    /\ pc = "rebalance_events"
    /\ events_rebalanced' = _rebalance_events(events, connections)
    /\ rebalanced_population' = RebalancedFrame(events, connections)
    /\ pc' = "rebalanced"
    /\ stages' = Append(stages, "rebalance")
    /\ UNCHANGED <<error, min_event_size, buildings, messages, population, pending, call,
                   event_models, events, connections>>

NextRebalance == rebalance_events

SpecRebalance == InitRebalance /\ [][NextRebalance]_vars

\* ------------------------------------------------------------ properties
LevelIndex(level) == IndexOf(levels, level)
FinerLevels(level) == {levels[i] : i \in 1..(LevelIndex(level) - 1)}
SetOf(s) == {s[i] : i \in DOMAIN s}

RECURSIVE SumOverEvents(_, _)
SumOverEvents(evs, I) ==
    IF I = {} THEN Zero
    ELSE LET i == CHOOSE x \in I : TRUE
         IN  NumAdd(evs[i].potential_population, SumOverEvents(evs, I \ {i}))

\* the ids a connection leads to from event id
OutOf(conns, id) == {c.b : c \in {d \in SetOf(conns) : d.a = id}}
\* the potential population of the events in `out` of a strictly finer level
Accounted(evs, conns, i) ==
    SumOverEvents(evs, {j \in DOMAIN evs : /\ evs[j].id \in OutOf(conns, evs[i].id)
                                           /\ evs[j].level \in FinerLevels(evs[i].level)})

\* C1: after _rebalance_events, every event above the building level whose
\* accounted population (the potential population of the strictly finer events
\* its a-side connections lead to) does not exceed its potential population
\* has exactly potential_population - accounted as its rebalanced population,
\* which is its potential population when no connection leaves it.
C1_RebalanceRule ==
    pc = "rebalanced" =>
        \A i \in DOMAIN events :
            (events[i].level # "building"
             /\ NumLeq(Accounted(events, connections, i), events[i].potential_population))
            => /\ \E j \in DOMAIN rebalanced_population :
                    /\ rebalanced_population[j].id = events[i].id
                    /\ NumEq(rebalanced_population[j].rebalanced_population,
                             NumSub(events[i].potential_population, Accounted(events, connections, i)))
               /\ OutOf(connections, events[i].id) = {} =>
                    \E j \in DOMAIN rebalanced_population :
                        /\ rebalanced_population[j].id = events[i].id
                        /\ rebalanced_population[j].rebalanced_population = events[i].potential_population

C1_Witness ==
    /\ pc = "rebalanced"
    /\ \E i \in DOMAIN events :
        /\ events[i].level # "building"
        /\ NumLess(Zero, Accounted(events, connections, i))
        /\ NumLess(Accounted(events, connections, i), events[i].potential_population)
        /\ \E c \in SetOf(connections) : c.a = events[i].id /\ \E j \in DOMAIN events :
              events[j].id = c.b /\ events[j].level \notin FinerLevels(events[i].level)
                                 /\ NumLess(Zero, events[j].potential_population)

\* C6: every building-level event given to _rebalance_events is in its
\* result with its potential population as population, and the result holds
\* the same events as the input.
C6_FinestLevelKept ==
    pc = "rebalanced" =>
        /\ \A i \in DOMAIN events :
              events[i].level = "building" =>
                  \E j \in DOMAIN events_rebalanced :
                      /\ events_rebalanced[j].id = events[i].id
                      /\ NumEq(Num(events_rebalanced[j].population), events[i].potential_population)
        /\ {events_rebalanced[j].id : j \in DOMAIN events_rebalanced} = {events[i].id : i \in DOMAIN events}

\* the rows _get_events concatenates, and the tables run holds before the
\* outlier filter
Rows == Flatten(event_models)
RowOf(id) == Rows[CHOOSE i \in DOMAIN Rows : Rows[i].id = id]
PreFilterEvents == EventsTable(Rows)
PreFilterConnections == _get_event_connections(PreFilterEvents)
\* the level an event was extracted at: the level its id names
ExtractionLevel(id) == id[1 + CHOOSE k \in DOMAIN id : id[k] = "_" /\ \A j \in 1..(k - 1) : id[j] # "_"]
\* the ids of the events of an object
IdsOfObject(level, oid) == {EventId(TopicRange[t], level, oid) : t \in DOMAIN TopicRange}
Objects == {<<levels[l], oid>> : l \in DOMAIN levels, oid \in 0..2}

\* the population the rebalancer gives an event: its rebalanced population,
\* its potential population at the building level, truncated to an integer
RebalancedPopulation(id) ==
    LET row == RowOf(id)
    IN  IF row.level = "building" THEN NumTrunc(row.potential_population)
        ELSE NumTrunc(_rebalance(PreFilterConnections, Rows,
                                 SubSeq(levels, 1, LevelIndex(row.level) - 1),
                                 row.potential_population, id))

\* C2: in a completed run the rebalancer ran after the connections were
\* built and before the outlier filter, and the population of every returned
\* event is its rebalanced population truncated to an integer.
C2_PopulationIsRebalanced ==
    pc = "done" =>
        /\ \E i, j, k \in DOMAIN stages :
              /\ i < j /\ j < k
              /\ stages[i] = "connections" /\ stages[j] = "rebalance" /\ stages[k] = "filter"
        /\ \A i \in DOMAIN events :
              NumEq(events[i].population, Num(RebalancedPopulation(events[i].id)))

\* C3: once the connections are built, two distinct events are joined by a
\* connection exactly when they share a member message id, and the weight of
\* the connection is the number of message ids they share.
C3_WeightIsSharedMessages ==
    pc = "filter_outliers" =>
        \A i, j \in DOMAIN Rows :
            i < j =>
                LET shared == SetOf(Rows[i].message_ids) \cap SetOf(Rows[j].message_ids)
                    edges == {c \in SetOf(connections) :
                                 {c.a, c.b} = {Rows[i].id, Rows[j].id}}
                IN  /\ (shared # {}) <=> (edges # {})
                    /\ \A c \in edges : c.weight = Cardinality(shared)

\* C4: an object with fewer than min_event_size member messages is not
\* clustered and no event is produced for it.
C4_MinimumSizeSkip ==
    /\ call.kind = "clustered" =>
          Len(LocalMessages(messages, call.level, call.object_id)) >= min_event_size
    /\ \A o \in Objects :
          Len(LocalMessages(messages, o[1], o[2])) < min_event_size =>
              \A i \in DOMAIN Rows : Rows[i].id \notin IdsOfObject(o[1], o[2])

\* the parent ids the buildings table gives an object at the next level up
ParentLevel(level) == levels[LevelIndex(level) + 1]
ParentIds(level, oid) ==
    {LevelId(buildings[i], ParentLevel(level)) : i \in {j \in DOMAIN buildings : LevelId(buildings[j], level) = oid}}
ParentResolvable(level, oid) ==
    /\ ParentIds(level, oid) # {}
    /\ \A p \in ParentIds(level, oid) : p # NaN /\ p \in DOMAIN population[ParentLevel(level)]

\* C5: no run is aborted by the population lookup; global and road events
\* have potential population 1; the events of a link or building without a
\* resolvable parent (none, a null one, one without population entry) are
\* recorded at level global with potential population 1; with a parent of
\* population zero they have potential population 1; otherwise they have
\* pop[level][object] / pop[parent level][parent].
C5_PotentialPopulation ==
    /\ error # "KeyError"
    /\ \A o \in Objects : \A i \in DOMAIN Rows :
          Rows[i].id \in IdsOfObject(o[1], o[2]) =>
              IF o[1] \in {"global", "road"}
              THEN Rows[i].potential_population = One /\ Rows[i].level = o[1]
              ELSE IF ~ParentResolvable(o[1], o[2])
              THEN Rows[i].potential_population = One /\ Rows[i].level = "global"
              ELSE LET parent == CHOOSE p \in ParentIds(o[1], o[2]) : TRUE
                       den == population[ParentLevel(o[1])][parent]
                   IN  /\ Rows[i].level = o[1]
                       /\ IF den = 0 THEN Rows[i].potential_population = One
                          ELSE NumEq(Rows[i].potential_population, <<population[o[1]][o[2]], den>>)

\* the raw intensity (member count) and duration of a returned event
RawColumn(col) ==
    [i \in DOMAIN events |->
        IF col = "intensity" THEN Num(RowOf(events[i].id).Count) ELSE RowOf(events[i].id).duration]
NormalizedColumn(col) ==
    [i \in DOMAIN events |-> IF col = "intensity" THEN events[i].intensity ELSE events[i].duration]

\* C7: over the events run returns, the smallest normalized intensity is 0
\* and the largest is 1, unless all of them have the same raw intensity and
\* then every normalized intensity is 0; likewise for duration.
C7_NormalizedOverFinalEvents ==
    (pc = "done" /\ events # <<>>) =>
        \A col \in {"intensity", "duration"} :
            LET raw == RawColumn(col)
                norm == NormalizedColumn(col)
            IN  IF \A i, j \in DOMAIN raw : NumEq(raw[i], raw[j])
                THEN \A i \in DOMAIN norm : NumEq(norm[i], Zero)
                ELSE /\ \E i \in DOMAIN norm : NumEq(norm[i], Zero)
                     /\ \E i \in DOMAIN norm : NumEq(norm[i], One)
                     /\ \A i \in DOMAIN norm : NumLeq(Zero, norm[i]) /\ NumLeq(norm[i], One)

\* the ids of the noise-cluster events (cluster label -1) that were extracted
NoiseIds == {Rows[i].id : i \in {j \in DOMAIN Rows : Rows[j].Topic = -1}}

\* C8: in the tables run returns no event is a noise-cluster event, and both
\* endpoints of every connection are events of the returned events table,
\* none of them a noise-cluster event.
C8_NoNoiseInFinalTables ==
    pc = "done" =>
        LET noise == NoiseIds
            ids == {events[i].id : i \in DOMAIN events}
        IN  /\ ids \cap noise = {}
            /\ \A k \in DOMAIN connections :
                  /\ connections[k].a \notin noise
                  /\ connections[k].b \notin noise
                  /\ connections[k].a \in ids
                  /\ connections[k].b \in ids

C8_Witness ==
    /\ pc = "done"
    /\ events # <<>>
    /\ connections # <<>>
    /\ \E c \in SetOf(PreFilterConnections) : c.a \notin NoiseIds /\ c.b \in NoiseIds
    /\ \E c \in SetOf(PreFilterConnections) : c.a \in NoiseIds /\ c.b \notin NoiseIds

\* C9: when the refinement pass of an object fails, at reduce_outliers or at
\* update_topics, the object's events are those of the labels of the initial
\* clustering call: one event per label, its members the messages given that
\* label, as many as its member count.
C9_UnrefinedLabelsKept ==
    (pc = "event_from_object" /\ call.kind = "clustered"
     /\ call.outcome \in {"reduce_failed", "update_failed"}) =>
        LET frame == event_models[Len(event_models)]
            local == LocalMessages(messages, call.level, call.object_id)
        IN  /\ {frame[i].Topic : i \in DOMAIN frame} = TopicsOf(call.labels)
            /\ \A i \in DOMAIN frame :
                  /\ frame[i].id = EventId(frame[i].Topic, call.level, call.object_id)
                  /\ SetOf(frame[i].message_ids) =
                        {local[k].message_id : k \in {n \in DOMAIN local : call.labels[n] = frame[i].Topic}}
                  /\ Len(frame[i].message_ids) = frame[i].Count

\* the level the events table records for an event id
RecordedLevel(id) == RowOf(id).level

\* C10 as stated: a connection joins two different events, no pair is
\* connected twice, and the level recorded on a is never finer than the
\* level recorded on b.
C10_RecordedLevelsOrdered ==
    pc = "filter_outliers" =>
        \A k \in DOMAIN connections :
            /\ connections[k].a # connections[k].b
            /\ \A n \in DOMAIN connections :
                  {connections[n].a, connections[n].b} = {connections[k].a, connections[k].b} => n = k
            /\ LevelIndex(RecordedLevel(connections[k].a)) >= LevelIndex(RecordedLevel(connections[k].b))

\* C10 amended: a connection joins two different events, no pair is
\* connected twice, and the level a was extracted at is never finer than the
\* level b was extracted at, so that every connection between an event and an
\* event extracted at a strictly finer level has the coarser one as a.
C10_ExtractionLevelsOrdered ==
    pc = "filter_outliers" =>
        LET rank == [k \in DOMAIN connections |->
                        <<LevelIndex(ExtractionLevel(connections[k].a)),
                          LevelIndex(ExtractionLevel(connections[k].b))>>]
            ids == {events[i].id : i \in DOMAIN events}
        IN  \A k \in DOMAIN connections :
                /\ connections[k].a # connections[k].b
                /\ connections[k].a \in ids /\ connections[k].b \in ids
                /\ \A n \in DOMAIN connections :
                      {connections[n].a, connections[n].b} = {connections[k].a, connections[k].b} => n = k
                /\ rank[k][1] >= rank[k][2]
                /\ \A e \in {connections[k].a, connections[k].b} :
                      (\E f \in {connections[k].a, connections[k].b} :
                          LevelIndex(ExtractionLevel(f)) < LevelIndex(ExtractionLevel(e)))
                      => connections[k].a = e

C10_Witness ==
    /\ pc = "filter_outliers"
    /\ \E k \in DOMAIN connections :
          /\ ExtractionLevel(connections[k].a) = "road"
          /\ ExtractionLevel(connections[k].b) = "link"
          /\ RecordedLevel(connections[k].b) = "global"

====
